---- MODULE Spec2Model ----
(***************************************************************************)
(* VSCode Workspace Launcher (src/pyVSCodeLauncher.py): the asynchronous   *)
(* workspace scan.  MainWindow (the scan coordinator, on the GUI thread)   *)
(* starts one ScanWorker per scan on a thread of its own; the worker walks *)
(* the root folder, reads every *.code-workspace file and emits progress / *)
(* finished / error signals, which reach MainWindow's slots as queued      *)
(* events tagged with the scan generation.  The published snapshot is      *)
(* shown through WorkspaceFilterProxyModel (search text, mode, tag); the   *)
(* user pins and opens entries (settings.pinned, settings.mru) and can run *)
(* "Fix Workspaces" over the files of the snapshot.                        *)
(*                                                                         *)
(* Text (names, paths, descriptions, tags) is a sequence of character      *)
(* codes, so that str.lower(), the sort key and str() are computed and not *)
(* assumed.                                                                *)
(***************************************************************************)
EXTENDS Integers, Sequences, FiniteSets, TLC

(***************************************************************************)
(* Bounds of the model.                                                    *)
(***************************************************************************)
\* start_scan is called at most MaxGen times (the generation counter is
\* unbounded in the program).
MaxGen ==
  2

(***************************************************************************)
(* Program constants.                                                      *)
(***************************************************************************)
\* SUPPORTED_EXT = ".code-workspace"
SUPPORTED_EXT ==
  <<46, 99, 111, 100, 101, 45, 119, 111, 114, 107, 115, 112, 97, 99, 101>>

\* ScanWorker._skip_dirs = {".git", ".hg", ".svn", "node_modules", "venv",
\* ".tox", ".mypy_cache"}
skip_dirs ==
  { <<46, 103, 105, 116>>,
    <<46, 104, 103>>,
    <<46, 115, 118, 110>>,
    <<110, 111, 100, 101, 95, 109, 111, 100, 117, 108, 101, 115>>,
    <<118, 101, 110, 118>>,
    <<46, 116, 111, 120>>,
    <<46, 109, 121, 112, 121, 95, 99, 97, 99, 104, 101>> }

\* "if count % 10 == 0: self.progress.emit(count, self.gen)"
ProgressEvery ==
  10

(***************************************************************************)
(* Text.                                                                   *)
(***************************************************************************)
\* str.lower() on ASCII text.
Lower(s) ==
  [i \in 1..Len(s) |-> IF s[i] \in 65..90 THEN s[i] + 32 ELSE s[i]]

\* a < b for str: lexicographic by code point, a proper prefix first.
StrLess(a, b) ==
  \E k \in 1..(Len(b)) :
     /\ k <= Len(a) + 1
     /\ \A i \in 1..(k - 1) : a[i] = b[i]
     /\ (k = Len(a) + 1 \/ a[k] < b[k])

\* name.endswith(suffix)
EndsWith(s, suffix) ==
  /\ Len(s) >= Len(suffix)
  /\ SubSeq(s, Len(s) - Len(suffix) + 1, Len(s)) = suffix

\* Path(dirpath) / name
Join(dirpath, name) ==
  dirpath \o <<47>> \o name

\* PurePath.stem: the final component without its last suffix; a name whose
\* only dot leads it (".code-workspace") has no suffix.
Stem(name) ==
  LET dots == {i \in 1..Len(name) : name[i] = 46}
      last == CHOOSE i \in dots : \A j \in dots : j <= i
  IN  IF dots = {} \/ last = 1 \/ last = Len(name)
        THEN name
        ELSE SubSeq(name, 1, last - 1)

(***************************************************************************)
(* JSON documents.  A value is a record [t, s]: t its JSON type ("absent"  *)
(* when the key is missing), s its text (the characters of a string, the   *)
(* decimal digits of a number).                                            *)
(***************************************************************************)
Absent ==
  [t |-> "absent", s |-> <<>>]

JNull ==
  [t |-> "null", s |-> <<>>]

JStr(s) ==
  [t |-> "str", s |-> s]

JNum(digits) ==
  [t |-> "num", s |-> digits]

\* A tags value: absent, a list of values, or a value that is no list.
NoTags ==
  [t |-> "absent", items |-> <<>>]

JList(items) ==
  [t |-> "list", items |-> items]

NotAList ==
  [t |-> "str", items |-> <<>>]

\* A meta value: absent, an object {description, tags}, or no object.
NoMeta ==
  [t |-> "absent", description |-> Absent, tags |-> NoTags]

NotAnObject ==
  [t |-> "str", description |-> Absent, tags |-> NoTags]

JMeta(description, tags) ==
  [t |-> "obj", description |-> description, tags |-> tags]

\* A folders value: absent, null, a list of folder objects (each stands for
\* {"path": s}), or a string (items: its characters).
NoFolders ==
  [t |-> "absent", items |-> <<>>]

NullFolders ==
  [t |-> "null", items |-> <<>>]

FoldersText(chars) ==
  [t |-> "str", items |-> chars]

\* [{"path": "."}]
DefaultFolders ==
  JList(<<[t |-> "obj", s |-> <<46>>]>>)

\* A settings value: absent, an object (s stands for its content), or any
\* of the values above that is no object.
JObject(content) ==
  [t |-> "obj", s |-> content]

\* What reading and parsing a file gives: an I/O error, a JSON syntax error,
\* a document whose top level is no object, or an object.
IOError ==
  [kind |-> "ioerror", folders |-> NoFolders, settings |-> Absent,
   meta |-> NoMeta, description |-> Absent]

BadJson ==
  [kind |-> "badjson", folders |-> NoFolders, settings |-> Absent,
   meta |-> NoMeta, description |-> Absent]

NonDict ==
  [kind |-> "nondict", folders |-> NoFolders, settings |-> Absent,
   meta |-> NoMeta, description |-> Absent]

\* An object with the keys folders, settings, meta and description.
JWorkspace(folders, settings, meta, description) ==
  [kind |-> "dict", folders |-> folders, settings |-> settings,
   meta |-> meta, description |-> description]

\* An object with neither folders nor settings.
JDoc(meta, description) ==
  JWorkspace(NoFolders, Absent, meta, description)

\* str(x) of a parsed JSON value: a string is itself, None is "None", a
\* number its decimal text.
PyStr(v) ==
  CASE v.t = "str" -> v.s
    [] v.t = "null" -> <<78, 111, 110, 101>>
    [] OTHER -> v.s

\* dict.get(key, default)
PyGet(v, default) ==
  IF v.t = "absent" THEN default ELSE v

(***************************************************************************)
(* The file system the scans walk.  Four root folders can be configured:   *)
(*   /r   a tree:  /r       x.code-workspace  notes.txt                    *)
(*                 /r/.git  h.code-workspace           (an excluded name)  *)
(*                 /r/a     bad.code-workspace  Y.code-workspace           *)
(*                          x.code-workspace  X.code-workspace             *)
(*   /v   one directory: v.code-workspace and 0 .. 9.code-workspace        *)
(*   /q   a path that does not exist                                       *)
(*   /d   a path whose stat() raises (no search permission on its parent)  *)
(*   /w   one directory: Api.code-workspace  b.code-workspace              *)
(*                       c.code-workspace                                  *)
(*   /t   a tree:  /t                 A.code-workspace                     *)
(*                 /t/node_modules    n.code-workspace   (excluded)        *)
(*                 /t/node_modules/c  c.code-workspace                     *)
(*                 /t/b               B.code-workspace                     *)
(*                 /t/b/venv          e.code-workspace   (excluded)        *)
(*                 /t/.gitx           g.code-workspace                     *)
(*   /t/node_modules  (g) the same directory, configured as the root       *)
(* Directories and file names are fixed; what each file holds (fs) and     *)
(* which roots are there (roots) are part of the state.  Roots are the     *)
(* four folders of the scan specifications; the others are the root of a   *)
(* specification of their own.                                             *)
(***************************************************************************)
Roots ==
  {"r", "v", "q", "d"}

RootPath ==
  [ r |-> <<47, 114>>, v |-> <<47, 118>>, q |-> <<47, 113>>, d |-> <<47, 100>>,
    w |-> <<47, 119>>, t |-> <<47, 116>>, g |-> <<47, 116, 47, 110, 111, 100, 101, 95, 109, 111, 100, 117, 108, 101, 115>> ]

\* os.scandir() of each directory, in listing order: its sub-directories
\* (name and directory) and its files.
Dirs ==
  [ r     |-> [ subdirs |-> << [name |-> <<46, 103, 105, 116>>, id |-> "r_git"],
                               [name |-> <<97>>, id |-> "r_a"] >>,
                files   |-> <<"f_x", "f_notes">> ],
    r_git |-> [ subdirs |-> <<>>, files |-> <<"f_h">> ],
    r_a   |-> [ subdirs |-> <<>>, files |-> <<"f_bad", "f_Y", "f_x2", "f_X">> ],
    v     |-> [ subdirs |-> <<>>,
                files   |-> <<"f_v", "f_0", "f_1", "f_2", "f_3", "f_4", "f_5",
                              "f_6", "f_7", "f_8", "f_9">> ],
    w     |-> [ subdirs |-> <<>>, files |-> <<"f_c", "f_api", "f_b">> ],
    t     |-> [ subdirs |-> << [name |-> <<110, 111, 100, 101, 95, 109, 111, 100, 117, 108, 101, 115>>, id |-> "t_nm"],
                               [name |-> <<98>>, id |-> "t_b"],
                               [name |-> <<46, 103, 105, 116, 120>>, id |-> "t_gitx"] >>,
                files   |-> <<"f_tA">> ],
    t_nm  |-> [ subdirs |-> << [name |-> <<99>>, id |-> "t_nm_c"] >>,
                files   |-> <<"f_n">> ],
    t_nm_c |-> [ subdirs |-> <<>>, files |-> <<"f_nc">> ],
    t_b   |-> [ subdirs |-> << [name |-> <<118, 101, 110, 118>>, id |-> "t_b_venv"] >>,
                files   |-> <<"f_tB">> ],
    t_b_venv |-> [ subdirs |-> <<>>, files |-> <<"f_e">> ],
    t_gitx |-> [ subdirs |-> <<>>, files |-> <<"f_g">> ],
    g     |-> [ subdirs |-> << [name |-> <<99>>, id |-> "t_nm_c"] >>,
                files   |-> <<"f_n">> ] ]

\* The name of each file:
\*   f_x      x.code-workspace
\*   f_notes  notes.txt
\*   f_bad    bad.code-workspace
\*   f_Y      Y.code-workspace
\*   f_h      h.code-workspace
\*   f_x2     x.code-workspace
\*   f_X      X.code-workspace
\*   f_v      v.code-workspace
\*   f_0      0.code-workspace
\*   f_1      1.code-workspace
\*   f_2      2.code-workspace
\*   f_3      3.code-workspace
\*   f_4      4.code-workspace
\*   f_5      5.code-workspace
\*   f_6      6.code-workspace
\*   f_7      7.code-workspace
\*   f_8      8.code-workspace
\*   f_9      9.code-workspace
\*   f_api    Api.code-workspace
\*   f_b      b.code-workspace
\*   f_c      c.code-workspace
\*   f_tA     A.code-workspace
\*   f_n      n.code-workspace
\*   f_nc     c.code-workspace
\*   f_tB     B.code-workspace
\*   f_e      e.code-workspace
\*   f_g      g.code-workspace
FileName ==
  [ f_x |-> <<120, 46, 99, 111, 100, 101, 45, 119, 111, 114, 107, 115, 112, 97, 99, 101>>,
    f_notes |-> <<110, 111, 116, 101, 115, 46, 116, 120, 116>>,
    f_bad |-> <<98, 97, 100, 46, 99, 111, 100, 101, 45, 119, 111, 114, 107, 115, 112, 97, 99, 101>>,
    f_Y |-> <<89, 46, 99, 111, 100, 101, 45, 119, 111, 114, 107, 115, 112, 97, 99, 101>>,
    f_h |-> <<104, 46, 99, 111, 100, 101, 45, 119, 111, 114, 107, 115, 112, 97, 99, 101>>,
    f_x2 |-> <<120, 46, 99, 111, 100, 101, 45, 119, 111, 114, 107, 115, 112, 97, 99, 101>>,
    f_X |-> <<88, 46, 99, 111, 100, 101, 45, 119, 111, 114, 107, 115, 112, 97, 99, 101>>,
    f_v |-> <<118, 46, 99, 111, 100, 101, 45, 119, 111, 114, 107, 115, 112, 97, 99, 101>>,
    f_0 |-> <<48, 46, 99, 111, 100, 101, 45, 119, 111, 114, 107, 115, 112, 97, 99, 101>>,
    f_1 |-> <<49, 46, 99, 111, 100, 101, 45, 119, 111, 114, 107, 115, 112, 97, 99, 101>>,
    f_2 |-> <<50, 46, 99, 111, 100, 101, 45, 119, 111, 114, 107, 115, 112, 97, 99, 101>>,
    f_3 |-> <<51, 46, 99, 111, 100, 101, 45, 119, 111, 114, 107, 115, 112, 97, 99, 101>>,
    f_4 |-> <<52, 46, 99, 111, 100, 101, 45, 119, 111, 114, 107, 115, 112, 97, 99, 101>>,
    f_5 |-> <<53, 46, 99, 111, 100, 101, 45, 119, 111, 114, 107, 115, 112, 97, 99, 101>>,
    f_6 |-> <<54, 46, 99, 111, 100, 101, 45, 119, 111, 114, 107, 115, 112, 97, 99, 101>>,
    f_7 |-> <<55, 46, 99, 111, 100, 101, 45, 119, 111, 114, 107, 115, 112, 97, 99, 101>>,
    f_8 |-> <<56, 46, 99, 111, 100, 101, 45, 119, 111, 114, 107, 115, 112, 97, 99, 101>>,
    f_9 |-> <<57, 46, 99, 111, 100, 101, 45, 119, 111, 114, 107, 115, 112, 97, 99, 101>>,
    f_api |-> <<65, 112, 105, 46, 99, 111, 100, 101, 45, 119, 111, 114, 107, 115, 112, 97, 99, 101>>,
    f_b |-> <<98, 46, 99, 111, 100, 101, 45, 119, 111, 114, 107, 115, 112, 97, 99, 101>>,
    f_c |-> <<99, 46, 99, 111, 100, 101, 45, 119, 111, 114, 107, 115, 112, 97, 99, 101>>,
    f_tA |-> <<65, 46, 99, 111, 100, 101, 45, 119, 111, 114, 107, 115, 112, 97, 99, 101>>,
    f_n |-> <<110, 46, 99, 111, 100, 101, 45, 119, 111, 114, 107, 115, 112, 97, 99, 101>>,
    f_nc |-> <<99, 46, 99, 111, 100, 101, 45, 119, 111, 114, 107, 115, 112, 97, 99, 101>>,
    f_tB |-> <<66, 46, 99, 111, 100, 101, 45, 119, 111, 114, 107, 115, 112, 97, 99, 101>>,
    f_e |-> <<101, 46, 99, 111, 100, 101, 45, 119, 111, 114, 107, 115, 112, 97, 99, 101>>,
    f_g |-> <<103, 46, 99, 111, 100, 101, 45, 119, 111, 114, 107, 115, 112, 97, 99, 101>> ]

Files ==
  DOMAIN FileName

\* The directory each file is in, the path of each directory and of each
\* file.
DirOf ==
  [f \in Files |-> CHOOSE d \in DOMAIN Dirs :
                      \E i \in 1..Len(Dirs[d].files) : Dirs[d].files[i] = f]

DirPath ==
  [ r     |-> <<47, 114>>,
    r_git |-> <<47, 114, 47, 46, 103, 105, 116>>,
    r_a   |-> <<47, 114, 47, 97>>,
    v     |-> <<47, 118>>,
    w     |-> <<47, 119>>,
    t     |-> <<47, 116>>,
    t_nm  |-> <<47, 116, 47, 110, 111, 100, 101, 95, 109, 111, 100, 117, 108, 101, 115>>,
    t_nm_c |-> <<47, 116, 47, 110, 111, 100, 101, 95, 109, 111, 100, 117, 108, 101, 115, 47, 99>>,
    t_b   |-> <<47, 116, 47, 98>>,
    t_b_venv |-> <<47, 116, 47, 98, 47, 118, 101, 110, 118>>,
    t_gitx |-> <<47, 116, 47, 46, 103, 105, 116, 120>>,
    g     |-> <<47, 116, 47, 110, 111, 100, 101, 95, 109, 111, 100, 117, 108, 101, 115>> ]

PathOf(f) ==
  DirPath[DirOf[f]] \o <<47>> \o FileName[f]

(***************************************************************************)
(* The Descriptor Reader: the body of the try block in ScanWorker.run.     *)
(***************************************************************************)
\* desc = "" ; if isinstance(data, dict): meta = data.get("meta");
\* if isinstance(meta, dict): desc = str(meta.get("description", ""));
\* if not desc: desc = str(data.get("description", ""))
Description(doc) ==
  IF doc.kind # "dict"
    THEN <<>>
    ELSE LET fromMeta == IF doc.meta.t = "obj"
                           THEN PyStr(PyGet(doc.meta.description, JStr(<<>>)))
                           ELSE <<>>
         IN  IF fromMeta # <<>>
               THEN fromMeta
               ELSE PyStr(PyGet(doc.description, JStr(<<>>)))

\* tags = [] ; if isinstance(meta.get("tags"), list):
\*               tags = [str(t) for t in meta.get("tags")]
Tags(doc) ==
  IF doc.kind = "dict" /\ doc.meta.t = "obj" /\ doc.meta.tags.t = "list"
    THEN [i \in 1..Len(doc.meta.tags.items) |-> PyStr(doc.meta.tags.items[i])]
    ELSE <<>>

\* A reader that also gives up on a document whose top level is no object.
Raises_unless_object(doc) ==
  doc.kind # "dict"

\* p.read_text() and json.loads(text) raise on an unreadable file and on
\* text that is no JSON: "except Exception: continue".
Raises(doc) ==
  doc.kind \in {"ioerror", "badjson"}

\* WorkspaceInfo(name=p.stem, path=p, description=desc, tags=tags)
\* (mtime, which nothing in the scan reads back, is left out).
WorkspaceInfo(dirpath, name, doc) ==
  [ name        |-> Stem(name),
    path        |-> Join(dirpath, name),
    description |-> Description(doc),
    tags        |-> Tags(doc) ]

(***************************************************************************)
(* The Tree Walker: one directory of "for dirpath, dirnames, filenames in  *)
(* os.walk(self.root)".                                                    *)
(***************************************************************************)
\* A signal emitted by a worker, queued for MainWindow's slot:
\* finished(rows, gen), error(message, gen), progress(count, gen).
Signal(kind, gen, rs, count) ==
  [kind |-> kind, gen |-> gen, rows |-> rs, count |-> count]

\* "except Exception: break": the rest of the directory is given up.
AfterException_break(rest) ==
  <<>>

\* "except Exception: continue": the files still to read after one raised.
AfterException(rest) ==
  rest

\* "for name in filenames: if name.endswith(SUPPORTED_EXT): try: ...
\*  rows.append(...); count += 1; if count % 10 == 0: progress.emit(...)".
\* acc = [rows, count, out]: the rows and count so far and the progress
\* signals emitted.
RECURSIVE ScanFiles(_, _, _, _, _)
ScanFiles(dirpath, names, docs, gen, acc) ==
  IF names = <<>>
    THEN acc
    ELSE LET f    == Head(names)
             name == FileName[f]
         IN  IF ~EndsWith(name, SUPPORTED_EXT)
               THEN ScanFiles(dirpath, Tail(names), docs, gen, acc)
               ELSE IF Raises(docs[f])
                 THEN ScanFiles(dirpath, AfterException(Tail(names)), docs, gen, acc)
                 ELSE LET n == acc.count + 1
                      IN  ScanFiles(dirpath, Tail(names), docs, gen,
                            [ rows  |-> Append(acc.rows,
                                               WorkspaceInfo(dirpath, name, docs[f])),
                              count |-> n,
                              out   |-> IF n % ProgressEvery = 0
                                          THEN Append(acc.out,
                                                 Signal("progress", gen, <<>>, n))
                                          ELSE acc.out ])

\* A walk that descends into every sub-directory.
Prune_nothing(subdirs) ==
  subdirs

\* "dirnames[:] = [d for d in dirnames if d not in self._skip_dirs]"
Prune(subdirs) ==
  SelectSeq(subdirs, LAMBDA d : d.name \notin skip_dirs)

\* os.walk is top-down: the kept sub-directories are walked, in order, before
\* the directories still pending.
Descend(dirpath, subdirs, pending) ==
  [i \in 1..Len(subdirs) |->
      [id |-> subdirs[i].id, path |-> Join(dirpath, subdirs[i].name)]] \o pending

(***************************************************************************)
(* rows.sort(key=lambda w: (w.name.lower(), str(w.path).lower()))          *)
(***************************************************************************)
\* A key that compares names and paths as they are, upper case first.
KeyLess_case_sensitive(a, b) ==
  \/ StrLess(a.name, b.name)
  \/ /\ a.name = b.name
     /\ StrLess(a.path, b.path)

\* key(a) < key(b)
KeyLess(a, b) ==
  \/ StrLess(Lower(a.name), Lower(b.name))
  \/ /\ Lower(a.name) = Lower(b.name)
     /\ StrLess(Lower(a.path), Lower(b.path))

\* r put into a sorted list after every row whose key is not greater (list.sort
\* is stable).
RECURSIVE Insert(_, _)
Insert(sorted, r) ==
  IF sorted = <<>>
    THEN <<r>>
    ELSE IF KeyLess(r, Head(sorted))
      THEN <<r>> \o sorted
      ELSE <<Head(sorted)>> \o Insert(Tail(sorted), r)

RECURSIVE SortFrom(_, _)
SortFrom(sorted, rest) ==
  IF rest = <<>> THEN sorted ELSE SortFrom(Insert(sorted, Head(rest)), Tail(rest))

SortRows(rs) ==
  SortFrom(<<>>, rs)

(***************************************************************************)
(* WorkspaceFilterProxyModel: the filter between the published snapshot    *)
(* and the list the user sees.  The proxy is a record                      *)
(* [pattern, mode, tag, pinned, mru] of its five fields.                   *)
(***************************************************************************)
\* The characters str.strip() removes (ASCII).
Whitespace ==
  {9, 10, 11, 12, 13, 28, 29, 30, 31, 32}

\* str.strip()
Strip(s) ==
  LET solid == {i \in 1..Len(s) : s[i] \notin Whitespace}
  IN  IF solid = {}
        THEN <<>>
        ELSE SubSeq(s, CHOOSE i \in solid : \A j \in solid : i <= j,
                       CHOOSE i \in solid : \A j \in solid : j <= i)

\* "pat in s" for str
Contains(pat, s) ==
  \E i \in 0..(Len(s) - Len(pat)) : SubSeq(s, i + 1, i + Len(pat)) = pat

\* WorkspaceFilterProxyModel.__init__
FilterProxy ==
  [pattern |-> <<>>, mode |-> "All", tag |-> <<>>, pinned |-> {}, mru |-> {}]

\* A setFilterText that keeps the text as it was typed.
setFilterText_verbatim(proxy, text) ==
  [proxy EXCEPT !.pattern = text]

\* self._pattern = (text or "").strip().lower()
setFilterText(proxy, text) ==
  [proxy EXCEPT !.pattern = Lower(Strip(text))]

\* self._mode = mode or "All"
setFilterMode(proxy, mode) ==
  [proxy EXCEPT !.mode = IF mode = "" THEN "All" ELSE mode]

\* self._tag = tag or ""
setTagFilter(proxy, tag) ==
  [proxy EXCEPT !.tag = tag]

\* self._pinned = set(pinned_paths or [])
setPinnedSet(proxy, pinned_paths) ==
  [proxy EXCEPT !.pinned = {pinned_paths[i] : i \in 1..Len(pinned_paths)}]

\* self._mru = set(mru_paths or [])
setMruSet(proxy, mru_paths) ==
  [proxy EXCEPT !.mru = {mru_paths[i] : i \in 1..Len(mru_paths)}]

\* filterAcceptsRow for the row holding ws
filterAcceptsRow(proxy, ws) ==
  /\ proxy.pattern # <<>> =>
        \/ Contains(proxy.pattern, Lower(ws.name))
        \/ Contains(proxy.pattern, Lower(ws.description))
        \/ Contains(proxy.pattern, Lower(ws.path))
  /\ proxy.mode = "Pinned" => ws.path \in proxy.pinned
  /\ proxy.mode = "Recent" => ws.path \in proxy.mru
  /\ proxy.tag # <<>> =>
        \E i \in 1..Len(ws.tags) : Lower(ws.tags[i]) = Lower(proxy.tag)

\* The rows of the proxy, the visible list: QSortFilterProxyModel with no
\* sort column keeps the accepted rows in the order of the source model.
ProxyRows(proxy, rs) ==
  SelectSeq(rs, LAMBDA ws : filterAcceptsRow(proxy, ws))

(***************************************************************************)
(* The tag selector.  on_scan_finished fills it with                       *)
(*   sorted({t for w in rows for t in (w.tags or [])},                     *)
(*          key=lambda s: s.lower())                                       *)
(* after the item "Any tag".                                               *)
(***************************************************************************)
\* "Any tag"
AnyTag ==
  <<65, 110, 121, 32, 116, 97, 103>>

\* {t for w in rows for t in (w.tags or [])}
AllTags(rs) ==
  UNION {{rs[i].tags[j] : j \in 1..Len(rs[i].tags)} : i \in 1..Len(rs)}

\* The orders in which iterating a set can give its elements: the order of
\* a Python set of str is not defined (it follows the hashes, which differ
\* from one run to the next).
RECURSIVE Orders(_)
Orders(S) ==
  IF S = {}
    THEN {<<>>}
    ELSE UNION {{<<x>> \o rest : rest \in Orders(S \ {x})} : x \in S}

\* A sort of the tags as they are written, upper case first.
TagLess_case_sensitive(a, b) ==
  StrLess(a, b)

\* key(a) < key(b) for key = str.lower
TagLess(a, b) ==
  StrLess(Lower(a), Lower(b))

\* t put into a sorted list after every tag whose key is not greater
\* (sorted() is stable).
RECURSIVE InsertTag(_, _)
InsertTag(sorted, t) ==
  IF sorted = <<>>
    THEN <<t>>
    ELSE IF TagLess(t, Head(sorted))
      THEN <<t>> \o sorted
      ELSE <<Head(sorted)>> \o InsertTag(Tail(sorted), t)

RECURSIVE SortTagsFrom(_, _)
SortTagsFrom(sorted, rest) ==
  IF rest = <<>>
    THEN sorted
    ELSE SortTagsFrom(InsertTag(sorted, Head(rest)), Tail(rest))

SortTags(order) ==
  SortTagsFrom(<<>>, order)

(***************************************************************************)
(* The thread of a scan.                                                   *)
(***************************************************************************)
\* A generation no thread was created for yet.
NoThread ==
  [started |-> FALSE, quit |-> FALSE, worker_deleted |-> FALSE]

\* on_fix_workspaces is not running.
NoPass ==
  [pc |-> "idle", rows |-> <<>>, n |-> 0, file |-> "none", data |-> NonDict]

\* "thread = QtCore.QThread(self); ...; thread.start()"
QThread ==
  [started |-> TRUE, quit |-> FALSE, worker_deleted |-> FALSE]

(***************************************************************************)
(* State.                                                                  *)
(***************************************************************************)
VARIABLES
  fs,            \* the disk: what each file holds (a document, or an error)
  roots,         \* the disk: each folder the user can configure as the root is
                 \* "dir", "missing" or "denied"
  root_folder,   \* MainWindow.settings.root_folder
  scan_gen,      \* MainWindow._scan_gen
  scan_worker,   \* MainWindow._scan_worker: the generation of the worker held
  scanning,      \* the busy indicator set_scanning() shows and hides
  status,        \* the status bar message
  ws_rows,       \* MainWindow.ws_model.rows: the published snapshot
  warnings,      \* the generations whose error a "Scan error" box has shown
  worker,        \* the ScanWorker of each generation and where its run() is
  queue,         \* per worker, its emitted signals not yet delivered, in order
  thread,        \* the QThread of each generation: started, asked to quit, and
                 \* whether its worker was handed to deleteLater()
  search_edit,   \* the text in MainWindow.search_edit
  tag_combo,     \* MainWindow.tag_combo: its items and the index of the one shown
  ws_proxy,      \* MainWindow.ws_proxy: _pattern, _mode, _tag, _pinned, _mru
  pinned,        \* MainWindow.settings.pinned
  mru,           \* MainWindow.settings.mru
  readonly,      \* the disk: the files that cannot be written
  fixed,         \* the count the last "Fix Workspaces" box has shown (-1: none)
  fix_pass       \* where on_fix_workspaces is in its loop, when the pass is
                 \* followed file by file

vars ==
  <<fs, roots, root_folder, scan_gen, scan_worker, scanning, status, ws_rows,
    warnings, worker, queue, thread, search_edit, tag_combo, ws_proxy, pinned,
    mru, readonly, fixed, fix_pass>>

\* The filter controls and the proxy model they feed.
view ==
  <<search_edit, tag_combo, ws_proxy>>

\* The membership sequences kept in the settings.
members ==
  <<pinned, mru>>

\* What "Fix Workspaces" depends on and reports.
repair ==
  <<readonly, fixed, fix_pass>>

Gens ==
  1..MaxGen

\* A generation no ScanWorker was created for yet.
NoWorker ==
  [ pc |-> "none", root |-> "r", cancel |-> FALSE, stack |-> <<>>,
    rows |-> <<>>, count |-> 0, outcome |-> "none" ]

\* ScanWorker.__init__(root, generation), the worker moved to its thread and
\* the thread started: run() is pending.
ScanWorker(root) ==
  [ pc |-> "queued", root |-> root, cancel |-> FALSE, stack |-> <<>>,
    rows |-> <<>>, count |-> 0, outcome |-> "none" ]

\* A cancel() that leaves the flag as it is.
cancel_forgotten(w) ==
  w

\* ScanWorker.cancel: self._cancel = True
cancel(w) ==
  [w EXCEPT !.cancel = TRUE]

\* MainWindow.set_scanning(on): the progress bar is shown or hidden; turning
\* it on also writes the status bar.
set_scanning(on) ==
  /\ scanning' = on
  /\ status' = IF on THEN [kind |-> "scanning", n |-> 0] ELSE status

\* A start_scan that first waits for the worker held to end its run.
start_scan_waits(root) ==
  /\ scan_gen < MaxGen
  /\ worker[scan_worker].pc = "done"
  /\ scan_gen' = scan_gen + 1
  /\ set_scanning(TRUE)
  /\ worker' = [g \in Gens |->
                  IF g = scan_gen + 1 THEN ScanWorker(root)
                  ELSE IF g = scan_worker THEN cancel(worker[g])
                  ELSE worker[g]]
  /\ thread' = [thread EXCEPT ![scan_gen + 1] = QThread]
  /\ scan_worker' = scan_gen + 1

\* MainWindow.start_scan: cancel the worker held, bump the generation, show
\* the busy indicator and start a worker for the new generation on a thread
\* of its own.  It waits for nothing.
start_scan(root) ==
  /\ scan_gen < MaxGen
  /\ scan_gen' = scan_gen + 1
  /\ set_scanning(TRUE)
  /\ worker' = [g \in Gens |->
                  IF g = scan_gen + 1 THEN ScanWorker(root)
                  ELSE IF g = scan_worker THEN cancel(worker[g])
                  ELSE worker[g]]
  /\ thread' = [thread EXCEPT ![scan_gen + 1] = QThread]
  /\ scan_worker' = scan_gen + 1

\* MainWindow.refresh (F5, and the end of on_add): rescan the current root.
refresh ==
  /\ start_scan(root_folder)
  /\ UNCHANGED <<fs, roots, root_folder, ws_rows, warnings, queue>>
  /\ UNCHANGED <<view, members, repair>>

\* MainWindow.on_settings, the dialog accepted: the root folder is replaced
\* and refresh() rescans it.
on_settings ==
  \E r \in (DOMAIN roots) \ {root_folder} :
     /\ root_folder' = r
     /\ start_scan(r)
     /\ UNCHANGED <<fs, roots, ws_rows, warnings, queue>>
     /\ UNCHANGED <<view, members, repair>>

(***************************************************************************)
(* ScanWorker.run, on the worker's thread.                                 *)
(***************************************************************************)
emit(g, sigs) ==
  queue' = [queue EXCEPT ![g] = @ \o sigs]

\* self.finished.emit(rows, gen).  Besides MainWindow.on_scan_finished, which
\* is queued for the GUI thread, start_scan connected two lambdas to this
\* signal after the worker was moved to its thread: they run with the emit,
\* "thread.quit()" and "worker.deleteLater()".
emit_finished(g, rs, count) ==
  /\ emit(g, <<Signal("finished", g, rs, count)>>)
  /\ thread' = [thread EXCEPT ![g].quit = TRUE, ![g].worker_deleted = TRUE]

\* self.error.emit(str(e), gen): only MainWindow.on_scan_error is connected.
emit_error(g) ==
  /\ emit(g, <<Signal("error", g, <<>>, 0)>>)
  /\ UNCHANGED thread

\* The head of run(): "if not self.root.exists(): finished.emit([], gen);
\* return".  A stat() that raises reaches "except Exception as e:
\* self.error.emit(str(e), self.gen)".
run_begin(g) ==
  /\ worker[g].pc = "queued"
  /\ LET w == worker[g]
     IN  CASE roots[w.root] = "denied" ->
                /\ worker' = [worker EXCEPT ![g].pc = "done", ![g].outcome = "failed"]
                /\ emit_error(g)
           [] roots[w.root] = "missing" ->
                /\ worker' = [worker EXCEPT ![g].pc = "done", ![g].outcome = "missing"]
                /\ emit_finished(g, <<>>, 0)
           [] OTHER ->
                /\ worker' = [worker EXCEPT
                                ![g].pc = "walk",
                                ![g].stack = <<[id |-> w.root, path |-> RootPath[w.root]]>>]
                /\ UNCHANGED <<queue, thread>>
  /\ UNCHANGED <<fs, roots, root_folder, scan_gen, scan_worker, scanning, status,
                 ws_rows, warnings>>
  /\ UNCHANGED <<view, members, repair>>

\* One directory of the os.walk loop: prune the sub-directories, read the
\* files; the cancellation check comes next.
walk_dir(g) ==
  /\ worker[g].pc = "walk"
  /\ LET w   == worker[g]
         top == Head(w.stack)
         res == ScanFiles(top.path, Dirs[top.id].files, fs, g,
                          [rows |-> w.rows, count |-> w.count, out |-> <<>>])
     IN  /\ worker' = [worker EXCEPT
                         ![g].pc = "check",
                         ![g].rows = res.rows,
                         ![g].count = res.count,
                         ![g].stack = Descend(top.path, Prune(Dirs[top.id].subdirs),
                                              Tail(w.stack))]
         /\ emit(g, res.out)
  /\ UNCHANGED <<fs, roots, root_folder, scan_gen, scan_worker, scanning, status,
                 ws_rows, warnings>>
  /\ UNCHANGED <<thread, view, members, repair>>

\* A cancelled worker that hands over what it has read so far.
CancelledRows_partial(w) ==
  w.rows

\* What a worker that sees its cancellation flag hands to finished.emit:
\* "if self._cancel: self.finished.emit([], self.gen); return".
CancelledRows(w) ==
  <<>>

\* "if self._cancel: ..." at the end of each directory, then the next
\* directory, or the end of the loop.
check_cancel(g) ==
  /\ worker[g].pc = "check"
  /\ LET w == worker[g]
     IN  IF w.cancel
           THEN /\ worker' = [worker EXCEPT ![g].pc = "done", ![g].outcome = "cancelled"]
                /\ emit_finished(g, CancelledRows(w), 0)
           ELSE /\ worker' = [worker EXCEPT
                                ![g].pc = IF w.stack = <<>> THEN "sort" ELSE "walk"]
                /\ UNCHANGED <<queue, thread>>
  /\ UNCHANGED <<fs, roots, root_folder, scan_gen, scan_worker, scanning, status,
                 ws_rows, warnings>>
  /\ UNCHANGED <<view, members, repair>>

\* After the loop: "rows.sort(key=...); self.finished.emit(rows, self.gen)".
run_end(g) ==
  /\ worker[g].pc = "sort"
  /\ worker' = [worker EXCEPT ![g].pc = "done", ![g].outcome = "completed"]
  /\ emit_finished(g, SortRows(worker[g].rows), worker[g].count)
  /\ UNCHANGED <<fs, roots, root_folder, scan_gen, scan_worker, scanning, status,
                 ws_rows, warnings>>
  /\ UNCHANGED <<view, members, repair>>

(***************************************************************************)
(* MainWindow's slots, on the GUI thread: each handles the oldest queued   *)
(* signal of some worker.                                                  *)
(***************************************************************************)
\* A slot that shows the error of any generation.
StaleError_never(gen) ==
  FALSE

\* A slot that takes the result of any generation.
StaleFinished_never(gen) ==
  FALSE

\* on_scan_finished: "if gen != getattr(self, '_scan_gen', 0): return"
StaleFinished(gen) ==
  gen # scan_gen

\* on_scan_error: "if gen != getattr(self, '_scan_gen', 0): return"
StaleError(gen) ==
  gen # scan_gen

\* on_scan_progress: "if gen != getattr(self, '_scan_gen', 0): return"
StaleProgress(gen) ==
  gen # scan_gen

\* MainWindow.on_scan_finished(rows, gen)
on_scan_finished(g) ==
  /\ queue[g] # <<>>
  /\ Head(queue[g]).kind = "finished"
  /\ queue' = [queue EXCEPT ![g] = Tail(@)]
  /\ LET sig == Head(queue[g])
     IN  IF StaleFinished(sig.gen)
           THEN UNCHANGED <<ws_rows, scanning, status, view>>
           ELSE /\ ws_rows' = sig.rows
                /\ UNCHANGED search_edit
                /\ ws_proxy' = setMruSet(setPinnedSet(ws_proxy, pinned), mru)
                /\ \E order \in Orders(AllTags(sig.rows)) :
                      tag_combo' = [items |-> <<AnyTag>> \o SortTags(order),
                                    current |-> 1]
                /\ scanning' = FALSE
                /\ status' = [kind |-> "found", n |-> Len(sig.rows)]
  /\ UNCHANGED <<fs, roots, root_folder, scan_gen, scan_worker, warnings, worker>>
  /\ UNCHANGED <<thread, members, repair>>

\* An on_scan_error that shows the box and leaves the busy indicator on.
on_scan_error_stays_busy(g) ==
  /\ queue[g] # <<>>
  /\ Head(queue[g]).kind = "error"
  /\ queue' = [queue EXCEPT ![g] = Tail(@)]
  /\ LET sig == Head(queue[g])
     IN  IF StaleError(sig.gen)
           THEN UNCHANGED <<scanning, warnings>>
           ELSE /\ UNCHANGED scanning
                /\ warnings' = warnings \cup {sig.gen}
  /\ UNCHANGED <<fs, roots, root_folder, scan_gen, scan_worker, status, ws_rows,
                 worker>>
  /\ UNCHANGED <<thread, view, members, repair>>

\* MainWindow.on_scan_error(message, gen)
on_scan_error(g) ==
  /\ queue[g] # <<>>
  /\ Head(queue[g]).kind = "error"
  /\ queue' = [queue EXCEPT ![g] = Tail(@)]
  /\ LET sig == Head(queue[g])
     IN  IF StaleError(sig.gen)
           THEN UNCHANGED <<scanning, warnings>>
           ELSE /\ scanning' = FALSE
                /\ warnings' = warnings \cup {sig.gen}
  /\ UNCHANGED <<fs, roots, root_folder, scan_gen, scan_worker, status, ws_rows,
                 worker>>
  /\ UNCHANGED <<thread, view, members, repair>>

\* MainWindow.on_scan_progress(count, gen)
on_scan_progress(g) ==
  /\ queue[g] # <<>>
  /\ Head(queue[g]).kind = "progress"
  /\ queue' = [queue EXCEPT ![g] = Tail(@)]
  /\ LET sig == Head(queue[g])
     IN  IF StaleProgress(sig.gen)
           THEN UNCHANGED status
           ELSE status' = [kind |-> "progress", n |-> sig.count]
  /\ UNCHANGED <<fs, roots, root_folder, scan_gen, scan_worker, scanning, ws_rows,
                 warnings, worker>>
  /\ UNCHANGED <<thread, view, members, repair>>

(***************************************************************************)
(* Initial states: MainWindow.__init__ ends with refresh(), so the first   *)
(* scan, generation 1, is already started.                                 *)
(***************************************************************************)
\* An object with neither meta nor description: {}.
EmptyObject ==
  JDoc(NoMeta, Absent)

\* The fixed files of the trees:
\*   /r/x.code-workspace    {"meta": {"description": "d", "tags": ["go"]}}
\*   /r/a/Y.code-workspace  {"description": "L"}
\*   /r/a/x.code-workspace  a document that is no object
\*   /r/a/X.code-workspace  {"meta": {"description": "", "tags": ""},
\*                           "description": "L"}
\*   /w/Api.code-workspace  {"folders": [{"path": "."}], "settings": {},
\*                           "meta": {"description": "d", "tags": ["Go", "Web"]}}
\*   /w/b.code-workspace    {"meta": {"tags": ["go"]}, "description": "L"}
\*   notes.txt and bad.code-workspace are no JSON; every other file is {}.
BaseFs ==
  [f \in Files |->
     CASE f = "f_x"     -> JDoc(JMeta(JStr(<<100>>), JList(<<JStr(<<103, 111>>)>>)), Absent)
       [] f = "f_notes" -> BadJson
       [] f = "f_bad"   -> BadJson
       [] f = "f_Y"     -> JDoc(NoMeta, JStr(<<76>>))
       [] f = "f_x2"    -> NonDict
       [] f = "f_X"     -> JDoc(JMeta(JStr(<<>>), NotAList), JStr(<<76>>))
       [] f = "f_api"   -> JWorkspace(DefaultFolders, JObject(<<>>),
                                      JMeta(JStr(<<100>>),
                                            JList(<<JStr(<<71, 111>>), JStr(<<87, 101, 98>>)>>)),
                                      Absent)
       [] f = "f_b"     -> JDoc(JMeta(Absent, JList(<<JStr(<<103, 111>>)>>)), JStr(<<76>>))
       [] OTHER         -> EmptyObject]

Started(root) ==
  /\ root_folder = root
  /\ scan_gen = 1
  /\ scan_worker = 1
  /\ scanning = TRUE
  /\ status = [kind |-> "scanning", n |-> 0]
  /\ ws_rows = <<>>
  /\ warnings = {}
  /\ worker = [g \in Gens |-> IF g = 1 THEN ScanWorker(root) ELSE NoWorker]
  /\ queue = [g \in Gens |-> <<>>]
  /\ thread = [g \in Gens |-> IF g = 1 THEN QThread ELSE NoThread]
  /\ search_edit = <<>>
  /\ tag_combo = [items |-> <<AnyTag>>, current |-> 1]
  /\ ws_proxy = setMruSet(setPinnedSet(FilterProxy, pinned), mru)
  /\ fixed = -1
  /\ fix_pass = NoPass

\* Both trees are on disk; bad.code-workspace is unreadable or is no JSON;
\* any of the roots is the configured one.
Init ==
  /\ roots = [r \in Roots |-> CASE r = "q" -> "missing" [] r = "d" -> "denied"
                                [] OTHER -> "dir"]
  /\ \E bad \in {IOError, BadJson} : fs = [BaseFs EXCEPT !["f_bad"] = bad]
  /\ readonly = {}
  /\ pinned = <<>>
  /\ mru = <<>>
  /\ \E root \in Roots : Started(root)

Next ==
  \/ refresh
  \/ on_settings
  \/ \E g \in Gens : run_begin(g)
  \/ \E g \in Gens : walk_dir(g)
  \/ \E g \in Gens : check_cancel(g)
  \/ \E g \in Gens : run_end(g)
  \/ \E g \in Gens : on_scan_finished(g)
  \/ \E g \in Gens : on_scan_error(g)
  \/ \E g \in Gens : on_scan_progress(g)

Spec ==
  Init /\ [][Next]_vars

\* The GUI thread's event loop delivers every queued signal: a slot whose
\* signal is at the head of a worker's queue is eventually run.
deliver(g) ==
  on_scan_finished(g) \/ on_scan_error(g) \/ on_scan_progress(g)

FairSpec ==
  Spec /\ \A g \in Gens : WF_vars(deliver(g))

(***************************************************************************)
(* The Descriptor Reader on every shape of document: only /v is on disk,   *)
(* and v.code-workspace holds any of the documents below.                  *)
(***************************************************************************)
\* A description value: absent, "", null, a number (42), a string ("d").
MetaDescriptions ==
  {Absent, JStr(<<>>), JNull, JNum(<<52, 50>>), JStr(<<100>>)}

\* The same for the legacy top-level field: absent, "", null, 7, "L".
TopDescriptions ==
  {Absent, JStr(<<>>), JNull, JNum(<<55>>), JStr(<<76>>)}

\* meta.tags: no list, ["go", 42] (and absent, NoTags).
TagValues ==
  {NotAList, JList(<<JStr(<<103, 111>>), JNum(<<52, 50>>)>>)}

\* meta: absent, no object, an object with any description and no tags, or
\* an object with a description and any tags value.
MetaValues ==
  {NoMeta, NotAnObject}
    \cup {JMeta(d, NoTags) : d \in MetaDescriptions}
    \cup {JMeta(JStr(<<100>>), t) : t \in TagValues}

AllDocs ==
  {IOError, BadJson, NonDict}
    \cup {JDoc(m, d) : m \in MetaValues, d \in TopDescriptions}

InitReader ==
  /\ roots = [r \in {"v", "d"} |-> IF r = "v" THEN "dir" ELSE "denied"]
  /\ \E doc \in AllDocs : fs = [BaseFs EXCEPT !["f_v"] = doc]
  /\ readonly = {}
  /\ pinned = <<>>
  /\ mru = <<>>
  /\ Started("v")

SpecReader ==
  InitReader /\ [][Next]_vars

(***************************************************************************)
(* The filter controls.  /w is the root; Api.code-workspace is pinned and  *)
(* b.code-workspace was opened before (both lists come from the            *)
(* configuration file); the user types into the search box, picks a mode   *)
(* and a tag, and rescans.                                                 *)
(***************************************************************************)
\* What the user types into the search box: "", "API", "l", "/w/b", " "
\* and "api " (a space after it).
Texts ==
  { <<>>, <<65, 80, 73>>, <<108>>, <<47, 119, 47, 98>>, <<32>>, <<97, 112, 105, 32>> }

\* search_edit.textChanged -> ws_proxy.setFilterText
search_edit_textChanged ==
  /\ \E text \in Texts \ {search_edit} :
        /\ search_edit' = text
        /\ ws_proxy' = setFilterText(ws_proxy, text)
  /\ UNCHANGED <<fs, roots, root_folder, scan_gen, scan_worker, scanning, status,
                 ws_rows, warnings, worker, queue, thread, tag_combo>>
  /\ UNCHANGED <<members, repair>>

\* mode_combo.currentTextChanged -> ws_proxy.setFilterMode
mode_combo_currentTextChanged ==
  /\ \E mode \in {"All", "Pinned", "Recent"} \ {ws_proxy.mode} :
        ws_proxy' = setFilterMode(ws_proxy, mode)
  /\ UNCHANGED <<fs, roots, root_folder, scan_gen, scan_worker, scanning, status,
                 ws_rows, warnings, worker, queue, thread, search_edit, tag_combo>>
  /\ UNCHANGED <<members, repair>>

\* tag_combo.currentTextChanged -> lambda t: self.ws_proxy.setTagFilter("")
\* if t == "Any tag" else self.ws_proxy.setTagFilter(t)
tag_combo_currentTextChanged ==
  /\ \E i \in (1..Len(tag_combo.items)) \ {tag_combo.current} :
        LET t == tag_combo.items[i]
        IN  /\ tag_combo' = [tag_combo EXCEPT !.current = i]
            /\ ws_proxy' = IF t = AnyTag THEN setTagFilter(ws_proxy, <<>>)
                                         ELSE setTagFilter(ws_proxy, t)
  /\ UNCHANGED <<fs, roots, root_folder, scan_gen, scan_worker, scanning, status,
                 ws_rows, warnings, worker, queue, thread, search_edit>>
  /\ UNCHANGED <<members, repair>>

InitView ==
  /\ roots = [r \in {"w"} |-> "dir"]
  /\ fs = BaseFs
  /\ readonly = {}
  /\ pinned = << <<47, 119, 47, 65, 112, 105, 46, 99, 111, 100, 101, 45, 119, 111, 114, 107, 115, 112, 97, 99, 101>> >>
  /\ mru = << <<47, 119, 47, 98, 46, 99, 111, 100, 101, 45, 119, 111, 114, 107, 115, 112, 97, 99, 101>> >>
  /\ Started("w")

\* on_settings, on_scan_error and on_scan_progress have nothing to do here:
\* /w is the only folder, it can be read and holds fewer than ten files.
NextView ==
  \/ refresh
  \/ \E g \in Gens : run_begin(g)
  \/ \E g \in Gens : walk_dir(g)
  \/ \E g \in Gens : check_cancel(g)
  \/ \E g \in Gens : run_end(g)
  \/ \E g \in Gens : on_scan_finished(g)
  \/ search_edit_textChanged
  \/ mode_combo_currentTextChanged
  \/ tag_combo_currentTextChanged

SpecView ==
  InitView /\ [][NextView]_vars

(***************************************************************************)
(* The tag selector under every kind of scan event: /w (with tags), /v     *)
(* (ten files and more, so progress is reported) and /d (the scan fails)   *)
(* can be configured, and the user picks tags and modes in between.        *)
(***************************************************************************)
InitTags ==
  /\ roots = [r \in {"w", "v", "d"} |-> IF r = "d" THEN "denied" ELSE "dir"]
  /\ fs = BaseFs
  /\ readonly = {}
  /\ pinned = <<>>
  /\ mru = <<>>
  /\ Started("w")

NextTags ==
  \/ Next
  \/ mode_combo_currentTextChanged
  \/ tag_combo_currentTextChanged

SpecTags ==
  InitTags /\ [][NextTags]_vars

(***************************************************************************)
(* The membership sequences: settings.pinned and settings.mru.  /w is      *)
(* scanned once; the user then opens and pins entries of the list.  The    *)
(* configuration file may already hold paths pinned and opened earlier.    *)
(***************************************************************************)
\* _update_mru(self, ws_path, max_items=100)
max_items ==
  100

\* [x for x in paths if x != p]
Without(paths, p) ==
  SelectSeq(paths, LAMBDA x : x # p)

\* m[:n]
Take(m, n) ==
  SubSeq(m, 1, IF Len(m) < n THEN Len(m) ELSE n)

\* An _update_mru that puts the path in front of whatever the list holds.
update_mru_prepended(paths, ws_path) ==
  Take(<<ws_path>> \o paths, max_items)

\* An _update_mru that keeps every path.
update_mru_uncapped(paths, ws_path) ==
  <<ws_path>> \o Without(paths, ws_path)

\* _update_mru: m = [p for p in self.settings.mru if p != ws_path];
\* m.insert(0, ws_path); self.settings.mru = m[:max_items]
update_mru(paths, ws_path) ==
  Take(<<ws_path>> \o Without(paths, ws_path), max_items)

\* on_toggle_pin, p not pinned: [p] + [x for x in self.settings.pinned if x != p]
pin(paths, p) ==
  <<p>> \o Without(paths, p)

\* on_toggle_pin, p pinned: [x for x in self.settings.pinned if x != p]
unpin(paths, p) ==
  Without(paths, p)

\* MainWindow.on_open_selected for the selected entry ws; ok is whether VS
\* Code could be launched.
open_selected(ws, ok) ==
  /\ status' = [kind |-> IF ok THEN "launched" ELSE "launch failed", n |-> 0]
  /\ IF ok
       THEN /\ mru' = update_mru(mru, ws.path)
            /\ ws_proxy' = setMruSet(ws_proxy, mru')
       ELSE UNCHANGED <<mru, ws_proxy>>
  /\ UNCHANGED <<fs, roots, root_folder, scan_gen, scan_worker, scanning,
                 ws_rows, warnings, worker, queue, thread, search_edit,
                 tag_combo, pinned>>
  /\ UNCHANGED repair

on_open_selected ==
  \E i \in 1..Len(ProxyRows(ws_proxy, ws_rows)), ok \in BOOLEAN :
     open_selected(ProxyRows(ws_proxy, ws_rows)[i], ok)

\* MainWindow.on_toggle_pin for the selected entry ws
toggle_pin(ws) ==
  /\ pinned' = IF \E k \in 1..Len(pinned) : pinned[k] = ws.path
                 THEN unpin(pinned, ws.path)
                 ELSE pin(pinned, ws.path)
  /\ ws_proxy' = setPinnedSet(ws_proxy, pinned')
  /\ UNCHANGED <<fs, roots, root_folder, scan_gen, scan_worker, scanning, status,
                 ws_rows, warnings, worker, queue, thread, search_edit,
                 tag_combo, mru>>
  /\ UNCHANGED repair

on_toggle_pin ==
  \E i \in 1..Len(ProxyRows(ws_proxy, ws_rows)) :
     toggle_pin(ProxyRows(ws_proxy, ws_rows)[i])

\* n paths outside /w that earlier sessions left in the configuration file.
OldPaths(n) ==
  [i \in 1..n |-> <<47, 111, 47, 1000 + i>>]

InitMembers ==
  /\ roots = [r \in {"w"} |-> "dir"]
  /\ fs = BaseFs
  /\ readonly = {}
  /\ pinned \in {<<>>, OldPaths(max_items)}
  /\ mru \in {<<>>, OldPaths(max_items - 1)}
  /\ Started("w")

\* The one scan MainWindow.__init__ starts, then the list is used.
NextMembers ==
  \/ \E g \in Gens : run_begin(g)
  \/ \E g \in Gens : walk_dir(g)
  \/ \E g \in Gens : check_cancel(g)
  \/ \E g \in Gens : run_end(g)
  \/ \E g \in Gens : on_scan_finished(g)
  \/ on_open_selected
  \/ on_toggle_pin

SpecMembers ==
  InitMembers /\ [][NextMembers]_vars

(***************************************************************************)
(* "Fix Workspaces": MainWindow.on_fix_workspaces.  /w is scanned once;    *)
(* c.code-workspace holds any of the documents below, a file may be        *)
(* read-only, and Api.code-workspace may be spoilt by another program      *)
(* after the scan.                                                         *)
(***************************************************************************)
\* bool(v) of a folders value
Truthy_never(v) ==
  FALSE

Truthy(v) ==
  v.t \notin {"absent", "null"} /\ v.items # <<>>

\* The body of the try block for a parsed object: the four backfills.  It
\* gives the object as it is written back, and whether anything changed.
Backfill(data, name) ==
  LET noFolders  == data.folders.t = "absent" \/ ~Truthy(data.folders)
      noSettings == data.settings.t = "absent" \/ data.settings.t # "obj"
      noMeta     == data.meta.t # "obj"
      meta       == IF noMeta THEN JMeta(Absent, NoTags) ELSE data.meta
      noDesc     == meta.description.t = "absent"
      noTags     == meta.tags.t = "absent" \/ meta.tags.t # "list"
  IN  [ data    |-> JWorkspace(
                      IF noFolders THEN DefaultFolders ELSE data.folders,
                      IF noSettings THEN JObject(<<>>) ELSE data.settings,
                      JMeta(IF noDesc THEN JStr(name) ELSE meta.description,
                            IF noTags THEN JList(<<>>) ELSE meta.tags),
                      data.description),
        changed |-> noFolders \/ noSettings \/ noMeta \/ noDesc \/ noTags ]

\* The file a path names.
FileAt(path) ==
  CHOOSE f \in Files : PathOf(f) = path

\* p.write_text(...) raises on a file that cannot be written.
WriteRaises_never(f, ro) ==
  FALSE

WriteRaises(f, ro) ==
  f \in ro

\* "for ws in rows: try: ... except Exception: continue" over the rows still
\* to do: disk is what the files hold by now, n the count so far.
RECURSIVE FixRows(_, _, _, _)
FixRows(rs, disk, ro, n) ==
  IF rs = <<>>
    THEN [fs |-> disk, fixed |-> n]
    ELSE LET ws  == Head(rs)
             f   == FileAt(ws.path)
             fix == Backfill(disk[f], ws.name)
         IN  IF Raises(disk[f])
               THEN FixRows(Tail(rs), disk, ro, n)
               ELSE IF disk[f].kind # "dict"
                 THEN FixRows(Tail(rs), disk, ro, n)
                 ELSE IF ~fix.changed
                   THEN FixRows(Tail(rs), disk, ro, n)
                   ELSE IF WriteRaises(f, ro)
                     THEN FixRows(Tail(rs), disk, ro, n)
                     ELSE FixRows(Tail(rs), [disk EXCEPT ![f] = fix.data], ro, n + 1)

\* MainWindow.on_fix_workspaces: the pass over the rows of ws_model, then the
\* box "Updated N workspace file(s)."
on_fix_workspaces ==
  /\ LET res == FixRows(ws_rows, fs, readonly, 0)
     IN  /\ fs' = res.fs
         /\ fixed' = res.fixed
  /\ UNCHANGED <<roots, root_folder, scan_gen, scan_worker, scanning, status,
                 ws_rows, warnings, worker, queue, thread, readonly, fix_pass>>
  /\ UNCHANGED <<view, members>>

\* Another program makes Api.code-workspace unreadable, or writes text that
\* is no JSON to it: the next read_text() or json.loads() of it raises.
disk_change ==
  /\ \E doc \in {IOError, BadJson} :
        /\ fs["f_api"] # doc
        /\ fs' = [fs EXCEPT !["f_api"] = doc]
  /\ UNCHANGED <<roots, root_folder, scan_gen, scan_worker, scanning, status,
                 ws_rows, warnings, worker, queue, thread>>
  /\ UNCHANGED <<view, members, repair>>

\* folders: absent, null, [], [{"path": "."}], "x".
FolderValues ==
  {NoFolders, NullFolders, JList(<<>>), DefaultFolders, FoldersText(<<120>>)}

\* settings: absent, {}, null, "s".
SettingValues ==
  {Absent, JObject(<<>>), JNull, JStr(<<115>>)}

\* meta: absent, no object, {}, {"description": "d"}, {"tags": ["go"]},
\* {"description": null, "tags": []}, {"description": "d", "tags": "t"},
\* {"description": "d", "tags": ["go"]}.
RepairMetaValues ==
  { NoMeta, NotAnObject, JMeta(Absent, NoTags), JMeta(JStr(<<100>>), NoTags),
    JMeta(Absent, JList(<<JStr(<<103, 111>>)>>)), JMeta(JNull, JList(<<>>)),
    JMeta(JStr(<<100>>), FoldersText(<<116>>)),
    JMeta(JStr(<<100>>), JList(<<JStr(<<103, 111>>)>>)) }

\* What c.code-workspace holds when the program starts.
RepairDocs ==
  {NonDict} \cup
  {JWorkspace(f, st, m, d) : f \in FolderValues, st \in SettingValues,
                             m \in RepairMetaValues, d \in {Absent, JStr(<<76>>)}}

InitRepair ==
  /\ roots = [r \in {"w"} |-> "dir"]
  /\ \E doc \in RepairDocs : fs = [BaseFs EXCEPT !["f_c"] = doc]
  /\ readonly \in {{}, {"f_b"}, {"f_c"}}
  /\ pinned = <<>>
  /\ mru = <<>>
  /\ Started("w")

\* The one scan MainWindow.__init__ starts, and the repair pass.
NextRepair ==
  \/ \E g \in Gens : run_begin(g)
  \/ \E g \in Gens : walk_dir(g)
  \/ \E g \in Gens : check_cancel(g)
  \/ \E g \in Gens : run_end(g)
  \/ \E g \in Gens : on_scan_finished(g)
  \/ on_fix_workspaces
  \/ disk_change

SpecRepair ==
  InitRepair /\ [][NextRepair]_vars

(***************************************************************************)
(* The walk of a tree with excluded names at several depths: /t, or its    *)
(* sub-directory /t/node_modules, is the root.                             *)
(***************************************************************************)
InitTree ==
  /\ roots = [r \in {"t", "g"} |-> "dir"]
  /\ fs = BaseFs
  /\ readonly = {}
  /\ pinned = <<>>
  /\ mru = <<>>
  /\ \E root \in {"t", "g"} : Started(root)

\* on_scan_error and on_scan_progress have nothing to do here: both roots
\* can be read and no walk meets ten files.
NextTree ==
  \/ refresh
  \/ on_settings
  \/ \E g \in Gens : run_begin(g)
  \/ \E g \in Gens : walk_dir(g)
  \/ \E g \in Gens : check_cancel(g)
  \/ \E g \in Gens : run_end(g)
  \/ \E g \in Gens : on_scan_finished(g)

SpecTree ==
  InitTree /\ [][NextTree]_vars

(***************************************************************************)
(* "Fix Workspaces" while a scan is walking.  on_fix_workspaces runs on    *)
(* the GUI thread, which handles nothing else until the loop is over; the  *)
(* workers read the same files on their own threads.  The pass is followed *)
(* file by file, and p.write_text() in its two steps: open(p, "w")         *)
(* empties the file, then the text is written and the file closed.         *)
(***************************************************************************)
\* open(p, "w") has emptied the file and nothing is written yet: the empty
\* text is no JSON.
Truncated ==
  BadJson

\* "rows = [...]; fixed = 0"
fix_start ==
  /\ fix_pass.pc = "idle"
  /\ fix_pass' = [NoPass EXCEPT !.pc = "loop", !.rows = ws_rows]
  /\ UNCHANGED <<fs, roots, root_folder, scan_gen, scan_worker, scanning, status,
                 ws_rows, warnings, worker, queue, thread, readonly, fixed>>
  /\ UNCHANGED <<view, members>>

\* The next row: read and parse the file and backfill the object; a file
\* that raises, holds no object or needs no change is passed over, any
\* other is opened for writing.
fix_read ==
  /\ fix_pass.pc = "loop"
  /\ fix_pass.rows # <<>>
  /\ LET ws  == Head(fix_pass.rows)
         f   == FileAt(ws.path)
         fix == Backfill(fs[f], ws.name)
     IN  IF \/ Raises(fs[f])
            \/ fs[f].kind # "dict"
            \/ ~fix.changed
            \/ WriteRaises(f, readonly)
           THEN /\ fix_pass' = [fix_pass EXCEPT !.rows = Tail(@)]
                /\ UNCHANGED fs
           ELSE /\ fix_pass' = [fix_pass EXCEPT !.pc = "write", !.file = f,
                                                !.data = fix.data]
                /\ fs' = [fs EXCEPT ![f] = Truncated]
  /\ UNCHANGED <<roots, root_folder, scan_gen, scan_worker, scanning, status,
                 ws_rows, warnings, worker, queue, thread, readonly, fixed>>
  /\ UNCHANGED <<view, members>>

\* The text is written and the file closed; "fixed += 1".
fix_write ==
  /\ fix_pass.pc = "write"
  /\ fs' = [fs EXCEPT ![fix_pass.file] = fix_pass.data]
  /\ fix_pass' = [fix_pass EXCEPT !.pc = "loop", !.rows = Tail(@), !.n = @ + 1,
                                  !.file = "none", !.data = NonDict]
  /\ UNCHANGED <<roots, root_folder, scan_gen, scan_worker, scanning, status,
                 ws_rows, warnings, worker, queue, thread, readonly, fixed>>
  /\ UNCHANGED <<view, members>>

\* The loop is over: the box "Updated N workspace file(s)."
fix_done ==
  /\ fix_pass.pc = "loop"
  /\ fix_pass.rows = <<>>
  /\ fixed' = fix_pass.n
  /\ fix_pass' = NoPass
  /\ UNCHANGED <<fs, roots, root_folder, scan_gen, scan_worker, scanning, status,
                 ws_rows, warnings, worker, queue, thread, readonly>>
  /\ UNCHANGED <<view, members>>

\* The GUI thread is free to run another slot.
GuiIdle ==
  fix_pass.pc = "idle"

gui_refresh ==
  GuiIdle /\ refresh

gui_on_scan_finished(g) ==
  GuiIdle /\ on_scan_finished(g)

InitConcurrent ==
  /\ roots = [r \in {"w"} |-> "dir"]
  /\ fs = BaseFs
  /\ readonly = {}
  /\ pinned = <<>>
  /\ mru = <<>>
  /\ Started("w")

NextConcurrent ==
  \/ gui_refresh
  \/ \E g \in Gens : run_begin(g)
  \/ \E g \in Gens : walk_dir(g)
  \/ \E g \in Gens : check_cancel(g)
  \/ \E g \in Gens : run_end(g)
  \/ \E g \in Gens : gui_on_scan_finished(g)
  \/ fix_start
  \/ fix_read
  \/ fix_write
  \/ fix_done

SpecConcurrent ==
  InitConcurrent /\ [][NextConcurrent]_vars

(***************************************************************************)
(* Properties.                                                             *)
(***************************************************************************)
\* The generations issued so far and the highest of them.
Issued ==
  {g \in Gens : worker[g].pc # "none"}

Highest ==
  CHOOSE g \in Issued : \A h \in Issued : h <= g

\* This step runs the slot for the oldest queued signal of worker g, which is
\* of the given kind.
Delivered(g, kind) ==
  /\ queue[g] # <<>>
  /\ Head(queue[g]).kind = kind
  /\ queue'[g] = Tail(queue[g])

\* A walk that is still running (started, its last signal not yet emitted).
InFlight(g) ==
  worker[g].pc \in {"queued", "walk", "check", "sort"}

\* C1: a walk result becomes the snapshot only if its generation is the
\* highest one issued when its completion is handled; a result of any lower
\* generation leaves the snapshot as it is, and the snapshot changes in no
\* other way.
C1_OnlyHighestGenerationPublished ==
  [][ /\ \A g \in Gens :
           Delivered(g, "finished") =>
             IF g = Highest
               THEN ws_rows' = Head(queue[g]).rows
               ELSE ws_rows' = ws_rows
      /\ ws_rows' # ws_rows =>
           \E g \in Gens : Delivered(g, "finished") /\ g = Highest ]_vars

\* C1 witness: generation 1 completed with entries and its completion has
\* been handled after generation 2 was issued: the snapshot is still empty.
C1_Witness ==
  /\ scan_gen = 2
  /\ worker[1].outcome = "completed"
  /\ worker[1].rows # <<>>
  /\ queue[1] = <<>>
  /\ ws_rows = <<>>

\* C2: a walk that saw its cancellation flag hands none of its partial data to
\* the completion path, and handling the completion of any walk whose flag is
\* set, seen or not, leaves the snapshot (and the busy indicator) as they are.
C2_CancelledWalkContributesNothing ==
  [][ \A g \in Gens :
        /\ worker[g].outcome = "cancelled" =>
              \A i \in 1..Len(queue[g]) :
                 queue[g][i].kind = "finished" => queue[g][i].rows = <<>>
        /\ worker[g].cancel /\ Delivered(g, "finished") =>
              UNCHANGED <<ws_rows, scanning>> ]_vars

\* C2 witness: generation 1 saw its flag after it had read entries, its
\* completion has been handled, and the snapshot is generation 2's.
C2_Witness ==
  /\ worker[1].outcome = "cancelled"
  /\ worker[1].rows # <<>>
  /\ queue[1] = <<>>
  /\ scan_gen = 2
  /\ ~scanning
  /\ ws_rows # <<>>

\* C3: the published snapshot is sorted ascending by (identifier lower-cased,
\* path lower-cased) and no two of its entries have the same path.
C3_SnapshotSortedNoDuplicatePaths ==
  /\ \A i, j \in 1..Len(ws_rows) :
        i < j =>
          \/ StrLess(Lower(ws_rows[i].name), Lower(ws_rows[j].name))
          \/ /\ Lower(ws_rows[i].name) = Lower(ws_rows[j].name)
             /\ ~StrLess(Lower(ws_rows[j].path), Lower(ws_rows[i].path))
  /\ \A i, j \in 1..Len(ws_rows) : i # j => ws_rows[i].path # ws_rows[j].path

\* C3 witness: a published snapshot of four entries that the walk did not
\* find in sorted order, two of them with the same identifier.
C3_Witness ==
  /\ Len(ws_rows) = 4
  /\ \E g \in Gens : /\ worker[g].outcome = "completed"
                     /\ ws_rows = SortRows(worker[g].rows)
                     /\ ws_rows # worker[g].rows
  /\ \E i, j \in 1..Len(ws_rows) : i # j /\ ws_rows[i].name = ws_rows[j].name

\* C4: start_scan can be called in every state, whatever walks are still in
\* flight; each call issues one generation, greater than every generation
\* issued before, makes it the current one, starts its worker and leaves the
\* coordinator scanning.
C4_StartScanNeverBlocks ==
  /\ [](scan_gen < MaxGen => ENABLED refresh)
  /\ [][ Issued' # Issued =>
           \E n \in Gens :
              /\ Issued' = Issued \cup {n}
              /\ \A g \in Issued : n > g
              /\ scan_gen' = n
              /\ worker'[n].pc = "queued"
              /\ scanning' ]_vars

\* C4 witness: generation 2 was started while the coordinator was scanning
\* and the walk of generation 1 was in the middle of its directories.
C4_Witness ==
  /\ scan_gen = 2
  /\ scanning
  /\ worker[1].pc \in {"walk", "check"}
  /\ worker[1].rows # <<>>
  /\ worker[2].pc = "queued"

\* C5: every walk in flight whose generation is below the current one has its
\* cancellation flag set, so at most one walk in flight has it unset.
C5_SupersededWalksCancelled ==
  /\ \A g \in Gens : InFlight(g) /\ g < scan_gen => worker[g].cancel
  /\ Cardinality({g \in Gens : InFlight(g) /\ ~worker[g].cancel}) <= 1

\* C5 witness: two walks in flight, the older one with its flag set.
C5_Witness ==
  /\ InFlight(1)
  /\ worker[1].cancel
  /\ InFlight(2)
  /\ ~worker[2].cancel

\* C6: handling a walk failure shows it if its generation is the highest one
\* issued and drops it otherwise; either way the snapshot, the workers and
\* the signals of the other generations stay as they are, and a dropped
\* failure leaves the busy indicator as it is.  Nothing else shows a failure.
C6_FailureSurfacedOnlyIfCurrent ==
  [][ /\ \A g \in Gens :
           Delivered(g, "error") =>
             /\ ws_rows' = ws_rows
             /\ worker' = worker
             /\ \A h \in Gens \ {g} : queue'[h] = queue[h]
             /\ IF g = Highest
                  THEN warnings' = warnings \cup {g}
                  ELSE warnings' = warnings /\ scanning' = scanning
      /\ warnings' # warnings =>
           \E g \in Gens : Delivered(g, "error") /\ g = Highest ]_vars

\* C6 witness: the failure of generation 1 was handled after generation 2 was
\* issued and dropped; the failure of generation 2 was shown.
C6_Witness ==
  /\ worker[1].outcome = "failed"
  /\ queue[1] = <<>>
  /\ warnings = {2}

\* C7: the coordinator is idle only when the walk of the highest generation
\* has ended and its completion or failure has been handled; it leaves idle
\* only by a start_scan; and once the walk of the highest generation has
\* ended, the coordinator becomes idle unless a newer scan is started.
C7_IdleOnlyAfterCurrentWalkHandled ==
  /\ [](~scanning => worker[Highest].pc = "done" /\ queue[Highest] = <<>>)
  /\ [][~scanning /\ scanning' => Issued' # Issued]_vars
  /\ \A g \in Gens :
        (Highest = g /\ worker[g].pc = "done") ~> (Highest # g \/ ~scanning)

\* C7 witness: idle after the walk of generation 2, the last one started,
\* failed, with the walk of generation 1 completed.
C7_Witness ==
  /\ ~scanning
  /\ scan_gen = 2
  /\ worker[2].outcome = "failed"
  /\ worker[1].outcome = "completed"

(***************************************************************************)
(* The reader and the walker against the disk.                             *)
(***************************************************************************)
\* The directories below each root that no excluded name leads to.
NotExcluded ==
  [ r |-> {"r", "r_a"}, v |-> {"v"}, q |-> {}, d |-> {}, w |-> {"w"} ]

\* The files of a root that a walk is to look at: in a directory no excluded
\* name leads to, named *.code-workspace.
Candidates(root) ==
  {f \in Files : DirOf[f] \in NotExcluded[root] /\ EndsWith(FileName[f], SUPPORTED_EXT)}

\* Reading the file failed or its text is no JSON.
Unreadable(f) ==
  fs[f].kind \in {"ioerror", "badjson"}

RowPaths(rs) ==
  {rs[i].path : i \in 1..Len(rs)}

\* C8 as claimed: a file is in a walk's result only if it parses as a document
\* of valid structure, its top level an object at the least.
C8_OnlyValidStructureListed ==
  \A g \in Gens : \A f \in Files :
     PathOf(f) \in RowPaths(worker[g].rows) => fs[f].kind = "dict"

\* C8 as amended: the result of a completed walk holds exactly the candidate
\* files that can be read and parse as JSON, whatever the document's
\* structure; a document whose top level is no object is listed with an empty
\* description and no tags; a file that cannot be read or parsed is not
\* listed.
C8_ListedIffReadableJson ==
  \A g \in Gens :
     worker[g].outcome = "completed" =>
       /\ RowPaths(worker[g].rows) =
            {PathOf(f) : f \in {c \in Candidates(worker[g].root) : ~Unreadable(c)}}
       /\ \A i \in 1..Len(worker[g].rows) : \A f \in Files :
             worker[g].rows[i].path = PathOf(f) /\ fs[f].kind = "nondict" =>
               worker[g].rows[i].description = <<>> /\ worker[g].rows[i].tags = <<>>

\* C8 witness: v.code-workspace holds a document whose top level is no
\* object, and the published snapshot lists it.
C8_Witness ==
  /\ fs["f_v"].kind = "nondict"
  /\ PathOf("f_v") \in RowPaths(ws_rows)

\* The walk of a root over a disk from which the files that cannot be read or
\* parsed have been removed.
RECURSIVE WalkWithoutUnreadable(_, _)
WalkWithoutUnreadable(stack, acc) ==
  IF stack = <<>>
    THEN acc.rows
    ELSE LET top == Head(stack)
         IN  WalkWithoutUnreadable(
               Descend(top.path, Prune(Dirs[top.id].subdirs), Tail(stack)),
               ScanFiles(top.path,
                         SelectSeq(Dirs[top.id].files, LAMBDA f : ~Unreadable(f)),
                         fs, 0, acc))

\* C9: a file that cannot be read or parsed neither ends the walk nor makes
\* the scan fail: a completed walk has read exactly the entries, in the same
\* order, that it reads with those files absent, and a walk fails only on a
\* root whose stat() raises.
C9_EntryFailureNeverAbortsWalk ==
  \A g \in Gens :
     /\ worker[g].outcome = "completed" =>
          worker[g].rows =
            WalkWithoutUnreadable(
              <<[id |-> worker[g].root, path |-> RootPath[worker[g].root]]>>,
              [rows |-> <<>>, count |-> 0, out |-> <<>>])
     /\ worker[g].outcome = "failed" => roots[worker[g].root] = "denied"
     /\ worker[g].pc \in {"walk", "check", "sort"} => roots[worker[g].root] = "dir"

\* C9 witness: a completed walk of /r, where bad.code-workspace is listed
\* first in /r/a and raises, has the three entries listed after it.
C9_Witness ==
  \E g \in Gens :
     /\ worker[g].outcome = "completed"
     /\ worker[g].root = "r"
     /\ Unreadable("f_bad")
     /\ {PathOf("f_Y"), PathOf("f_x2"), PathOf("f_X")} \subseteq RowPaths(worker[g].rows)

\* The text of a description value: the characters of a string, the digits
\* of a number; null and a missing key have none.
TextOf(v) ==
  IF v.t \in {"str", "num"} THEN v.s ELSE <<>>

\* The description C10 claims: meta.description when present and non-empty,
\* else the top-level description when present, else the empty string.
ClaimedDescription(doc) ==
  IF doc.kind # "dict"
    THEN <<>>
    ELSE IF doc.meta.t = "obj" /\ TextOf(doc.meta.description) # <<>>
      THEN TextOf(doc.meta.description)
      ELSE TextOf(doc.description)

\* C10 as claimed: every entry read has the description resolved in that
\* order, for every shape of meta, meta.description and description.
C10_DescriptionResolution ==
  \A g \in Gens : \A i \in 1..Len(worker[g].rows) : \A f \in Files :
     worker[g].rows[i].path = PathOf(f) =>
       worker[g].rows[i].description = ClaimedDescription(fs[f])

(***************************************************************************)
(* The filtered view.                                                      *)
(***************************************************************************)
\* The entries the user sees.
Visible ==
  ProxyRows(ws_proxy, ws_rows)

\* The elements of a sequence.
Range(seq) ==
  {seq[i] : i \in 1..Len(seq)}

\* text occurs in field, letter case apart.
SubstringNoCase(text, field) ==
  \E i \in 1..(Len(field) - Len(text) + 1) :
     \A k \in 1..Len(text) : Lower(field)[i + k - 1] = Lower(text)[k]

\* The entries of the snapshot the query (text, mode, tag) and the membership
\* sequences select, in the snapshot's order.
Selected(text, mode, tag) ==
  SelectSeq(ws_rows, LAMBDA e :
     /\ \/ text = <<>>
        \/ SubstringNoCase(text, e.name)
        \/ SubstringNoCase(text, e.description)
        \/ SubstringNoCase(text, e.path)
     /\ \/ mode = "All"
        \/ mode = "Pinned" /\ e.path \in Range(pinned)
        \/ mode = "Recent" /\ e.path \in Range(mru)
     /\ \/ tag = <<>>
        \/ \E t \in Range(e.tags) : Lower(t) = Lower(tag))

\* C11, as stated: the visible entries are the snapshot entries that match
\* the text as typed (empty, or a case-insensitive substring of identifier,
\* description or path), the mode and the tag, in the snapshot's order.
C11_VisibleMatchTextAsTyped ==
  Visible = Selected(search_edit, ws_proxy.mode, ws_proxy.tag)

\* C11, amended: the visible entries are the snapshot entries that match the
\* text with the white space at its ends removed (empty, or a
\* case-insensitive substring of identifier, description or path), the mode
\* and the tag, in the snapshot's order.
C11_VisibleMatchStrippedText ==
  Visible = Selected(Strip(search_edit), ws_proxy.mode, ws_proxy.tag)

\* "api " is in the search box, a tag is picked, and of the three entries
\* published only Api is visible.
C11_Witness ==
  /\ Len(ws_rows) = 3
  /\ search_edit = <<97, 112, 105, 32>>
  /\ ws_proxy.tag # <<>>
  /\ Len(Visible) = 1
  /\ Visible[1].name = <<65, 112, 105>>

(***************************************************************************)
(* The derived tag list.                                                   *)
(***************************************************************************)
\* The tags the selector offers, after its first item "Any tag".
TagList ==
  Tail(tag_combo.items)

\* The tags present across the entries of the snapshot.
SnapshotTags ==
  UNION {Range(ws_rows[i].tags) : i \in 1..Len(ws_rows)}

\* C12: the tag list holds each tag of the current snapshot's entries once,
\* sorted case-insensitively; and it changes only in a step that publishes a
\* snapshot (the completion of the current generation), never by a change of
\* the query, a stale completion, a progress event or a failure.
C12_TagListFollowsSnapshot ==
  /\ [](/\ Range(TagList) = SnapshotTags
        /\ Len(TagList) = Cardinality(SnapshotTags)
        /\ \A i, j \in 1..Len(TagList) :
              i < j => ~StrLess(Lower(TagList[j]), Lower(TagList[i])))
  /\ [][TagList' # TagList =>
          \E g \in Gens : Delivered(g, "finished") /\ g = scan_gen]_vars

\* The three tags of /w are listed, "go" before "Go", a mode other than All
\* is picked, and the scan that followed has failed and said so.
C12_Witness ==
  /\ TagList = << <<103, 111>>, <<71, 111>>, <<87, 101, 98>> >>
  /\ ws_proxy.mode # "All"
  /\ warnings = {2}

(***************************************************************************)
(* The membership sequences.                                               *)
(***************************************************************************)
\* No path occurs twice.
NoDuplicate(paths) ==
  \A i, j \in 1..Len(paths) : paths[i] = paths[j] => i = j

\* a is the beginning of b.
IsPrefix(a, b) ==
  /\ Len(a) <= Len(b)
  /\ \A i \in 1..Len(a) : a[i] = b[i]

\* path leads the sequence, which holds it once, and the paths after it are
\* the other paths of the sequence before, in the order they had.
MovedToFront(path, before, after) ==
  /\ after # <<>>
  /\ after[1] = path
  /\ \A i \in 2..Len(after) : after[i] # path
  /\ IsPrefix(Tail(after), SelectSeq(before, LAMBDA x : x # path))

\* C13: opening an entry puts its path at the front of Recent, and pinning
\* an entry that was not pinned puts its path at the front of Pinned, once,
\* the other paths keeping their order; neither sequence ever holds a path
\* twice.
C13_MembershipDeduplicated ==
  /\ [](NoDuplicate(pinned) /\ NoDuplicate(mru))
  /\ [][\A i \in 1..Len(ws_rows) :
          /\ open_selected(ws_rows[i], TRUE)
               => MovedToFront(ws_rows[i].path, mru, mru')
          /\ (toggle_pin(ws_rows[i]) /\ ws_rows[i].path \notin Range(pinned))
               => MovedToFront(ws_rows[i].path, pinned, pinned')]_vars

\* b.code-workspace was opened before Api.code-workspace and then again: it
\* leads Recent, Api comes second, and c.code-workspace is pinned before Api.
C13_Witness ==
  /\ Len(mru) >= 2
  /\ mru[1] = <<47, 119, 47, 98, 46, 99, 111, 100, 101, 45, 119, 111, 114, 107, 115, 112, 97, 99, 101>>
  /\ mru[2] = <<47, 119, 47, 65, 112, 105, 46, 99, 111, 100, 101, 45, 119, 111, 114, 107, 115, 112, 97, 99, 101>>
  /\ Len(pinned) >= 2
  /\ pinned[1] = <<47, 119, 47, 65, 112, 105, 46, 99, 111, 100, 101, 45, 119, 111, 114, 107, 115, 112, 97, 99, 101>>
  /\ pinned[2] = <<47, 119, 47, 99, 46, 99, 111, 100, 101, 45, 119, 111, 114, 107, 115, 112, 97, 99, 101>>

\* C14, as stated: neither Pinned nor Recent is ever longer than the
\* maximum.
C14_BothSequencesCapped ==
  Len(pinned) <= max_items /\ Len(mru) <= max_items

\* C14, amended: Recent is never longer than the maximum (Pinned has none).
C14_RecentCapped ==
  Len(mru) <= max_items

\* Recent is full, and its two latest paths are entries opened in this
\* session: the oldest path has gone.
C14_Witness ==
  /\ Len(mru) = max_items
  /\ mru[1] = <<47, 119, 47, 98, 46, 99, 111, 100, 101, 45, 119, 111, 114, 107, 115, 112, 97, 99, 101>>
  /\ mru[2] = <<47, 119, 47, 65, 112, 105, 46, 99, 111, 100, 101, 45, 119, 111, 114, 107, 115, 112, 97, 99, 101>>
  /\ mru[max_items] = OldPaths(max_items)[max_items - 2]

(***************************************************************************)
(* The repair pass.                                                        *)
(***************************************************************************)
\* The files the entries of the snapshot name.
SnapshotFiles ==
  {f \in Files : \E i \in 1..Len(ws_rows) : ws_rows[i].path = PathOf(f)}

\* C15: after a repair pass, a second pass over the same snapshot and tree
\* would modify no file and report the count 0.
C15_RepairIdempotent ==
  [][on_fix_workspaces =>
       LET again == FixRows(ws_rows', fs', readonly', 0)
       IN  again.fixed = 0 /\ again.fs = fs']_vars

\* b.code-workspace holds what a repair pass wrote to it, and the pass that
\* ran last reported 0: it came after the pass that repaired the file.
C15_Witness ==
  /\ fixed = 0
  /\ fs["f_b"].meta.description = JStr(<<98>>)
  /\ fs["f_b"].folders = DefaultFolders

\* The file can be read and its text is JSON.
Parsable(doc) ==
  doc.kind \notin {"ioerror", "badjson"}

\* A required field is missing or malformed, as the claim lists them.
DefectAsListed(doc) ==
  \/ doc.folders.t = "absent"
  \/ doc.settings.t # "obj"
  \/ doc.meta.t # "obj"
  \/ doc.meta.description.t = "absent"
  \/ doc.meta.tags.t # "list"

\* The same, with a folder list that is null or empty counted as missing.
DefectOrNoFolder(doc) ==
  \/ DefectAsListed(doc)
  \/ doc.folders.t = "null"
  \/ doc.folders.items = <<>>

C20_RepairPreservesResolution ==
  [][on_fix_workspaces =>
       \A f \in SnapshotFiles :
          /\ Description(fs'[f]) = Description(fs[f])
          /\ Tags(fs'[f]) = Tags(fs[f])]_vars

(***************************************************************************)
(* Excluded directories.                                                   *)
(***************************************************************************)
\* The components of a path: the texts between its slashes.
RECURSIVE Components(_)
Components(path) ==
  IF path = <<>>
    THEN <<>>
    ELSE LET slashes == {i \in 1..Len(path) : path[i] = 47}
             first   == CHOOSE i \in slashes : \A j \in slashes : i <= j
         IN  IF slashes = {}
               THEN <<path>>
               ELSE IF first = 1
                 THEN Components(Tail(path))
                 ELSE <<SubSeq(path, 1, first - 1)>>
                        \o Components(SubSeq(path, first + 1, Len(path)))

\* path lies below the root.
Below(path, rootpath) ==
  /\ Len(Components(path)) > Len(Components(rootpath))
  /\ IsPrefix(Components(rootpath), Components(path))

\* path passes through a directory below the root whose name is excluded.
ThroughExcluded(path, rootpath) ==
  \E i \in (Len(Components(rootpath)) + 1)..Len(Components(path)) :
     Components(path)[i] \in skip_dirs

\* C17: a walk never has a directory to enter that lies in or under an
\* excluded name below its root; no row it collects or hands over has a path
\* through such a directory; and the result of a completed walk holds every
\* file below the root named *.code-workspace that can be read and parsed
\* and is under no excluded directory.
C17_ExcludedDirectoriesPruned ==
  \A g \in Gens :
     worker[g].pc # "none" =>
       LET rootpath == RootPath[worker[g].root]
       IN  /\ \A i \in 1..Len(worker[g].stack) :
                ~ThroughExcluded(worker[g].stack[i].path, rootpath)
           /\ \A i \in 1..Len(worker[g].rows) :
                ~ThroughExcluded(worker[g].rows[i].path, rootpath)
           /\ \A k \in 1..Len(queue[g]) : \A i \in 1..Len(queue[g][k].rows) :
                ~ThroughExcluded(queue[g][k].rows[i].path, rootpath)
           /\ \A k \in 1..Len(queue[g]) :
                (queue[g][k].kind = "finished" /\ worker[g].outcome = "completed") =>
                   \A f \in Files :
                      ( /\ Below(PathOf(f), rootpath)
                        /\ EndsWith(FileName[f], SUPPORTED_EXT)
                        /\ fs[f].kind \notin {"ioerror", "badjson"}
                        /\ ~ThroughExcluded(PathOf(f), rootpath) )
                      => PathOf(f) \in RowPaths(queue[g][k].rows)

\* The walk of /t has completed with A, B and g.code-workspace, and the walk
\* of /t/node_modules, the root itself bearing an excluded name, with its
\* two files.
C17_Witness ==
  \E g, h \in Gens :
     /\ worker[g].root = "t" /\ worker[g].outcome = "completed"
     /\ Len(worker[g].rows) = 3
     /\ worker[h].root = "g" /\ worker[h].outcome = "completed"
     /\ Len(worker[h].rows) = 2

(***************************************************************************)
(* The tag selector and the filter.                                        *)
(***************************************************************************)
\* The tag the selector shows.
ShownTag ==
  tag_combo.items[tag_combo.current]

\* C18: the tag the filter applies is the tag the selector shows, "Any tag"
\* standing for no tag; after a snapshot is published and the selector is
\* back on "Any tag", no tag picked earlier restricts the visible entries.
C18_AppliedTagIsShownTag ==
  ws_proxy.tag = (IF ShownTag = AnyTag THEN <<>> ELSE ShownTag)

(***************************************************************************)
(* The threads of the scans.                                               *)
(***************************************************************************)
\* C19: once the walk of a generation has ended, whichever way, its thread
\* is eventually asked to quit and its worker released.
C19_ThreadQuitAfterWalk ==
  \A g \in Gens :
     (worker[g].pc = "done") ~> (thread[g].quit /\ thread[g].worker_deleted)

(***************************************************************************)
(* A walk while the repair pass runs.                                      *)
(***************************************************************************)
\* The three files of /w hold a JSON document before the pass and after it.
ValidThroughout ==
  {"f_api", "f_b", "f_c"}

\* C21: a walk that runs while the repair pass rewrites files still yields
\* every file that is valid before and after the pass: the result of a
\* completed walk of /w, and with it the published snapshot, holds all three
\* files however the walk's reads and the pass's writes interleave.
C21_WalkDuringRepairDropsNothing ==
  /\ \A g \in Gens :
        worker[g].outcome = "completed" =>
          \A f \in ValidThroughout : PathOf(f) \in RowPaths(worker[g].rows)
  /\ ws_rows # <<>> =>
        \A f \in ValidThroughout : PathOf(f) \in RowPaths(ws_rows)

====
